---- MODULE Spec2Model ----
(***************************************************************************)
(* Model of the PLS601 QR label server: the per-prefix code allocator of   *)
(* src/src/App.jsx (POST /api/allocate-batch, lines 678-739) running on    *)
(* the single shared SQLite connection of initDatabase, the id-based        *)
(* allocator of src/server/server.js (lines 193-222), the sheet renderers  *)
(* (POST /api/generate-sheet), the calibration grids (GET /api/test-grid)  *)
(* and the browser-side generator of src/src/App.jsx (lines 1-439).        *)
(*                                                                         *)
(* Every `await` of a handler is one atomic step: the awaited statement    *)
(* executes on the shared connection and the handler runs on to its next   *)
(* await (or to its response).  Handlers of different requests interleave  *)
(* at these steps.                                                         *)
(***************************************************************************)
EXTENDS Integers, Sequences, FiniteSets, TLC

(* ------------------------------ bounds -------------------------------- *)

\* Number of allocate-batch requests one behaviour receives.
MaxRequests == 4

\* Number of process restarts one behaviour contains.
MaxRestarts == 1

(* ------------------------- program constants -------------------------- *)

\* if (nextNumber > 99999)
MAX_NUMBER == 99999

\* String(nextNumber).padStart(5, '0'); totalLen = prefixLen + 5
PAD_WIDTH == 5

\* n > 500
MAX_COUNT == 500

\* /^[A-Z0-9]{1,3}$/
MAX_PREFIX_LEN == 3

(* ------------------------- strings (JS / SQL) ------------------------- *)

Digits == "0123456789"
UpperLetters == "ABCDEFGHIJKLMNOPQRSTUVWXYZ"
LowerLetters == "abcdefghijklmnopqrstuvwxyz"

\* s[i-1] of JavaScript: the i-th character (1-based) as a string.
CharAt(s, i) == SubSeq(s, i, i)

DigitChar(d) == CharAt(Digits, d + 1)

IsDigit(c) == \E d \in 0..9 : c = DigitChar(d)

DigitVal(c) == CHOOSE d \in 0..9 : c = DigitChar(d)

\* String(n) for a non-negative integer n.
RECURSIVE NumToString(_)
NumToString(n) ==
  IF n < 10 THEN DigitChar(n) ELSE NumToString(n \div 10) \o DigitChar(n % 10)

\* s.padStart(w, fill): fill is prepended until the length is at least w.
RECURSIVE PadStart(_, _, _)
PadStart(s, w, fill) ==
  IF Len(s) >= w THEN s ELSE PadStart(fill \o s, w, fill)

\* c.toUpperCase() for one character.
UpperChar(c) ==
  IF \E k \in 1..26 : c = CharAt(LowerLetters, k)
  THEN CharAt(UpperLetters, CHOOSE k \in 1..26 : c = CharAt(LowerLetters, k))
  ELSE c

\* String(prefix).toUpperCase()
RECURSIVE ToUpperCase(_)
ToUpperCase(s) ==
  IF Len(s) = 0 THEN ""
  ELSE UpperChar(CharAt(s, 1)) \o ToUpperCase(SubSeq(s, 2, Len(s)))

IsUpperAlnum(c) == IsDigit(c) \/ \E k \in 1..26 : c = CharAt(UpperLetters, k)

\* /^[A-Z0-9]{1,3}$/.test(cleanPrefix)
PrefixPattern(s) ==
  /\ Len(s) >= 1
  /\ Len(s) <= MAX_PREFIX_LEN
  /\ \A k \in 1..Len(s) : IsUpperAlnum(CharAt(s, k))

\* substr(code, start) of SQLite (1-based start).
Substr(code, start) == SubSeq(code, start, Len(code))

\* CAST(text AS INTEGER) of SQLite: the value of the longest leading run of
\* digits, 0 when there is none.
RECURSIVE CastDigits(_, _)
CastDigits(s, acc) ==
  IF Len(s) = 0 \/ ~IsDigit(CharAt(s, 1)) THEN acc
  ELSE CastDigits(SubSeq(s, 2, Len(s)), acc * 10 + DigitVal(CharAt(s, 1)))

CastInteger(s) == CastDigits(s, 0)

\* code GLOB `${cleanPrefix}[0-9][0-9][0-9][0-9][0-9]` AND length(code) = totalLen,
\* for a cleanPrefix that passed PrefixPattern (no GLOB metacharacter in it).
GlobMatchLeading(code, cleanPrefix) ==
  /\ Len(code) >= Len(cleanPrefix) + PAD_WIDTH
  /\ SubSeq(code, 1, Len(cleanPrefix)) = cleanPrefix
  /\ \A k \in (Len(cleanPrefix) + 1)..(Len(cleanPrefix) + PAD_WIDTH) : IsDigit(CharAt(code, k))

GlobMatch(code, cleanPrefix) ==
  /\ Len(code) = Len(cleanPrefix) + PAD_WIDTH
  /\ SubSeq(code, 1, Len(cleanPrefix)) = cleanPrefix
  /\ \A k \in (Len(cleanPrefix) + 1)..Len(code) : IsDigit(CharAt(code, k))

\* `${cleanPrefix}${String(nextNumber).padStart(5, '0')}`
MakeCode(cleanPrefix, nextNumber) ==
  cleanPrefix \o PadStart(NumToString(nextNumber), PAD_WIDTH, "0")

(* --------------------------- the labels table ------------------------- *)

VARIABLES
  base,      \* rows T00001 .. T<base> (ids 1..base) committed to the database
             \* file by earlier runs of the allocator, before this process started
  labels,    \* rows [id, code] added since, as the shared connection sees them
             \* (committed rows and rows of the open transaction); each row also
             \* records the request whose INSERT added it (by), for the properties
  seq,       \* sqlite_sequence of labels: the largest id handed out (AUTOINCREMENT)
  inTxn,     \* a transaction is open on the shared connection
  saved,     \* the table as it was when the open transaction began
  reqs,      \* the allocate-batch requests: handler position, locals, response
  arrived,   \* number of allocate-batch requests received so far
  restarts,  \* number of process restarts so far
  sheet,     \* the generate-sheet request followed: its body, its response, its
             \* document (the handlers keep no state from one request to the next)
  grid,      \* the test-grid request followed: its response and its page
  client     \* the browser-side generator of src/src/App.jsx: the form's state
             \* (prefix, start, count) and the codes derived from it

vars == <<base, labels, seq, inTxn, saved, reqs, arrived, restarts, sheet, grid, client>>

Reqs == 1..MaxRequests

\* const { prefix = 'T', count = 1 } = req.body: the default prefix, also the
\* prefix of the rows found in the database file at start.
DEFAULT_PREFIX == "T"

NoSnapshot == [rows |-> {}, seq |-> 0]

\* A code of the block of rows that earlier runs committed.
InBase(code) ==
  /\ base > 0
  /\ GlobMatch(code, DEFAULT_PREFIX)
  /\ CastInteger(Substr(code, Len(DEFAULT_PREFIX) + 1)) \in 1..base

\* code TEXT UNIQUE: the insert of `code` conflicts with a row of the table.
UniqueViolationOff(rows, code) == FALSE

UniqueViolation(rows, code) ==
  InBase(code) \/ \E row \in rows : row.code = code

SetMax(S) == CHOOSE m \in S : \A k \in S : k <= m

\* SELECT MAX(CAST(substr(code, prefixLen + 1) AS INTEGER)) AS max_num FROM labels
\* WHERE code GLOB globPattern AND length(code) = totalLen
\* evaluated on the connection's view of the table; max_num is NULL when no row matches.
SelectMaxNum(rows, cleanPrefix) ==
  LET prefixLen == Len(cleanPrefix)
      fromRows == {CastInteger(Substr(row.code, prefixLen + 1)) :
                     row \in {x \in rows : GlobMatch(x.code, cleanPrefix)}}
      fromBase == IF base > 0 /\ GlobMatch(MakeCode(DEFAULT_PREFIX, base), cleanPrefix)
                  THEN {base} ELSE {}
      nums == fromRows \cup fromBase
  IN IF nums = {} THEN [isNull |-> TRUE, max_num |-> 0]
     ELSE [isNull |-> FALSE, max_num |-> SetMax(nums)]

\* The rows that survive a crash or a ROLLBACK: the durable ledger.
Committed == IF inTxn THEN saved.rows ELSE labels

(* ------------------------------ requests ------------------------------ *)

\* Number(count): an integer, or a value Number.isInteger rejects (NaN, a fraction).
NumberOf(count) ==
  IF count.kind = "int" THEN [isInteger |-> TRUE, v |-> count.v]
  ELSE [isInteger |-> FALSE, v |-> 0]

NoResponse == [status |-> 0, error |-> "", codes |-> <<>>]

IdleReq ==
  [pc |-> "idle", body |-> [prefix |-> [given |-> FALSE, s |-> ""],
                            count |-> [kind |-> "missing", v |-> 0]],
   cleanPrefix |-> "", n |-> 0, nextNumber |-> 0, i |-> 0, inserted |-> <<>>,
   stmts |-> {}, ioFailed |-> FALSE, res |-> NoResponse]

\* The handler returns: its response is sent; the loop locals are dead.
Respond(q, status, error, codes) ==
  [q EXCEPT !.pc = "done", !.nextNumber = 0, !.i = 0,
            !.res = [status |-> status, error |-> error, codes |-> codes]]

\* for (let i = 0; i < n; i++) { if (nextNumber > 99999) { await ROLLBACK ... }
\*   ... await db.run(INSERT) ... }  await db.exec('COMMIT'):
\* the statement the handler awaits next.
LoopHeadNoCheck(q) ==
  IF q.i < q.n THEN [q EXCEPT !.pc = "insert"] ELSE [q EXCEPT !.pc = "commit"]

LoopHead(q) ==
  IF q.i < q.n
  THEN IF q.nextNumber > MAX_NUMBER
       THEN [q EXCEPT !.pc = "rollback"]
       ELSE [q EXCEPT !.pc = "insert"]
  ELSE [q EXCEPT !.pc = "commit"]

\* if (!Number.isInteger(n) || n < 1 || n > 500) is not taken.
ValidCountNoLowerBound(n) == n.isInteger /\ n.v <= MAX_COUNT

ValidCount(n) == n.isInteger /\ n.v >= 1 /\ n.v <= MAX_COUNT

\* let nextNumber = (row?.max_num ?? 0) + 1
NextNumberSkips(row) == (IF row.isNull THEN 0 ELSE row.max_num) + 2

NextNumber(row) == (IF row.isNull THEN 0 ELSE row.max_num) + 1

\* The handler up to its first await: destructuring, validation, db.get issued.
Receive(body) ==
  /\ arrived < MaxRequests
  /\ LET r == arrived + 1
         prefix == IF body.prefix.given THEN body.prefix.s ELSE DEFAULT_PREFIX
         count == IF body.count.kind = "missing" THEN [kind |-> "int", v |-> 1]
                  ELSE body.count
         cleanPrefix == ToUpperCase(prefix)
         n == NumberOf(count)
         q == [IdleReq EXCEPT !.body = body]
     IN reqs' = [reqs EXCEPT ![r] =
          IF ~PrefixPattern(cleanPrefix)
          THEN Respond(q, 400, "Prefix must be 1-3 alphanumeric characters", <<>>)
          ELSE IF ~ValidCount(n)
          THEN Respond(q, 400, "Count must be an integer between 1 and 500", <<>>)
          ELSE [q EXCEPT !.pc = "get", !.cleanPrefix = cleanPrefix, !.n = n.v]]
  /\ arrived' = arrived + 1
  /\ UNCHANGED <<base, labels, seq, inTxn, saved, restarts, sheet, grid, client>>

\* await db.get(SELECT MAX ...); let nextNumber = (row?.max_num ?? 0) + 1;
\* db.exec('BEGIN IMMEDIATE TRANSACTION') is issued.
Get(r) ==
  /\ reqs[r].pc = "get"
  /\ LET q == reqs[r]
         row == SelectMaxNum(labels, q.cleanPrefix)
     IN reqs' = [reqs EXCEPT ![r] =
          [q EXCEPT !.pc = "begin",
                    !.nextNumber = NextNumber(row),
                    !.stmts = @ \cup {"SELECT"}]]
  /\ UNCHANGED <<base, labels, seq, inTxn, saved, arrived, restarts, sheet, grid, client>>

\* await db.exec('BEGIN IMMEDIATE TRANSACTION'): fails when the connection already
\* has a transaction open ("cannot start a transaction within a transaction").
Begin(r) ==
  /\ reqs[r].pc = "begin"
  /\ LET q == [reqs[r] EXCEPT !.stmts = @ \cup {"BEGIN"}]
     IN IF inTxn
        THEN /\ reqs' = [reqs EXCEPT ![r] = [q EXCEPT !.pc = "catch"]]
             /\ UNCHANGED <<inTxn, saved>>
        ELSE /\ reqs' = [reqs EXCEPT ![r] = LoopHead(q)]
             /\ inTxn' = TRUE
             /\ saved' = [rows |-> labels, seq |-> seq]
  /\ UNCHANGED <<base, labels, seq, arrived, restarts, sheet, grid, client>>

\* await db.run(`INSERT INTO labels (code) VALUES (?)`, code); inserted.push(code);
\* nextNumber++.  Outside a transaction the row is committed at once (autocommit).
\* The statement throws on a UNIQUE conflict, or when the storage fails (ioError:
\* disk full, I/O error); the failed statement adds no row.  ioFailed records that
\* the request met a storage failure.
Insert(r) ==
  /\ reqs[r].pc = "insert"
  /\ \E ioError \in BOOLEAN :
       LET q == [reqs[r] EXCEPT !.stmts = @ \cup {"INSERT"}]
           code == MakeCode(q.cleanPrefix, q.nextNumber)
       IN IF ioError \/ UniqueViolation(labels, code)
          THEN /\ reqs' = [reqs EXCEPT ![r] =
                    [q EXCEPT !.pc = "catch", !.ioFailed = @ \/ ioError]]
               /\ UNCHANGED <<labels, seq>>
          ELSE /\ labels' = labels \cup {[id |-> seq + 1, code |-> code, by |-> r]}
               /\ seq' = seq + 1
               /\ reqs' = [reqs EXCEPT ![r] =
                    LoopHead([q EXCEPT !.inserted = Append(@, code),
                                       !.nextNumber = @ + 1,
                                       !.i = @ + 1])]
  /\ UNCHANGED <<base, inTxn, saved, arrived, restarts, sheet, grid, client>>

\* if (nextNumber > 99999) { await db.exec('ROLLBACK'); return res.status(400)... }
\* ROLLBACK fails when no transaction is open; the failure is thrown to the catch.
Rollback(r) ==
  /\ reqs[r].pc = "rollback"
  /\ LET q == [reqs[r] EXCEPT !.stmts = @ \cup {"ROLLBACK"}]
     IN IF inTxn
        THEN /\ labels' = saved.rows
             /\ seq' = saved.seq
             /\ inTxn' = FALSE
             /\ saved' = NoSnapshot
             /\ reqs' = [reqs EXCEPT ![r] =
                  Respond(q, 400, "Prefix exhausted (max 99999)", <<>>)]
        ELSE /\ reqs' = [reqs EXCEPT ![r] = [q EXCEPT !.pc = "catch"]]
             /\ UNCHANGED <<labels, seq, inTxn, saved>>
  /\ UNCHANGED <<base, arrived, restarts, sheet, grid, client>>

\* await db.exec('COMMIT'); res.json({ codes: inserted }).  COMMIT fails when no
\* transaction is open.
Commit(r) ==
  /\ reqs[r].pc = "commit"
  /\ LET q == [reqs[r] EXCEPT !.stmts = @ \cup {"COMMIT"}]
     IN IF inTxn
        THEN /\ inTxn' = FALSE
             /\ saved' = NoSnapshot
             /\ reqs' = [reqs EXCEPT ![r] = Respond(q, 200, "", q.inserted)]
        ELSE /\ reqs' = [reqs EXCEPT ![r] = [q EXCEPT !.pc = "catch"]]
             /\ UNCHANGED <<inTxn, saved>>
  /\ UNCHANGED <<base, labels, seq, arrived, restarts, sheet, grid, client>>

\* catch (err) { try { await db.exec('ROLLBACK'); } catch {} ...
\*   res.status(500).json({ error: 'Allocation failed' }) }
CatchNoRollback(r) ==
  /\ reqs[r].pc = "catch"
  /\ reqs' = [reqs EXCEPT ![r] = Respond(reqs[r], 500, "Allocation failed", <<>>)]
  /\ UNCHANGED <<base, labels, seq, inTxn, saved, arrived, restarts, sheet, grid, client>>

Catch(r) ==
  /\ reqs[r].pc = "catch"
  /\ LET q == [reqs[r] EXCEPT !.stmts = @ \cup {"ROLLBACK"}]
     IN /\ reqs' = [reqs EXCEPT ![r] = Respond(q, 500, "Allocation failed", <<>>)]
        /\ IF inTxn
           THEN /\ labels' = saved.rows
                /\ seq' = saved.seq
                /\ inTxn' = FALSE
                /\ saved' = NoSnapshot
           ELSE UNCHANGED <<labels, seq, inTxn, saved>>
  /\ UNCHANGED <<base, arrived, restarts, sheet, grid, client>>

\* The handler of request r is between its first await and its response.
InFlight(r) == reqs[r].pc \notin {"idle", "done", "lost"}

\* Restart with a database that is created anew (nothing persisted).
RestartInMemory ==
  /\ restarts < MaxRestarts
  /\ arrived > 0
  /\ restarts' = restarts + 1
  /\ labels' = {}
  /\ seq' = 0
  /\ inTxn' = FALSE
  /\ saved' = NoSnapshot
  /\ reqs' = [r \in Reqs |-> IF InFlight(r)
                                THEN [reqs[r] EXCEPT !.pc = "lost", !.nextNumber = 0, !.i = 0]
                                ELSE reqs[r]]
  /\ UNCHANGED <<base, arrived, sheet, grid, client>>

\* The process stops and starts again (initDatabase; CREATE TABLE IF NOT EXISTS):
\* the handlers in flight never answer, the connection is closed and SQLite discards
\* the transaction left open on it; the committed rows stay.
Restart ==
  /\ restarts < MaxRestarts
  /\ arrived > 0
  /\ restarts' = restarts + 1
  /\ labels' = Committed
  /\ seq' = IF inTxn THEN saved.seq ELSE seq
  /\ inTxn' = FALSE
  /\ saved' = NoSnapshot
  /\ reqs' = [r \in Reqs |-> IF InFlight(r)
                                THEN [reqs[r] EXCEPT !.pc = "lost", !.nextNumber = 0, !.i = 0]
                                ELSE reqs[r]]
  /\ UNCHANGED <<base, arrived, sheet, grid, client>>

(* ----------- id-based allocator (src/server/server.js 193-222) --------- *)

\* String(nextId).padStart(6, '0')
ID_PAD_WIDTH == 6

\* SELECT id FROM labels ORDER BY id DESC LIMIT 1: the row with the largest id, none
\* when the table is empty.
SelectLastId(rows) ==
  LET ids == {row.id : row \in rows} \cup (IF base > 0 THEN {base} ELSE {})
  IN IF ids = {} THEN [isNull |-> TRUE, id |-> 0]
     ELSE [isNull |-> FALSE, id |-> SetMax(ids)]

\* `${prefix}-${padded}`
IdCode(prefix, nextId) ==
  prefix \o "-" \o PadStart(NumToString(nextId), ID_PAD_WIDTH, "0")

\* for (let i = 0; i < count; i++): the number of passes for the count of the body
\* (i < count is false for a count that converts to NaN).
IdLoopCount(count) ==
  CASE count.kind = "missing" -> 1
    [] count.kind = "int" -> count.v
    [] count.kind = "text" -> 0

\* The statement the handler awaits next, or its answer res.json({ codes: inserted }).
IdLoopHead(q) ==
  IF q.i < q.n THEN [q EXCEPT !.pc = "idInsert"] ELSE Respond(q, 200, "", q.inserted)

\* The handler up to its first await: destructuring, db.get issued.  Nothing of the
\* body is validated.
IdReceive(body) ==
  /\ arrived < MaxRequests
  /\ reqs' = [reqs EXCEPT ![arrived + 1] =
       [IdleReq EXCEPT !.body = body, !.pc = "idGet",
                       !.cleanPrefix = IF body.prefix.given THEN body.prefix.s
                                       ELSE DEFAULT_PREFIX,
                       !.n = IdLoopCount(body.count)]]
  /\ arrived' = arrived + 1
  /\ UNCHANGED <<base, labels, seq, inTxn, saved, restarts, sheet, grid, client>>

\* await db.get(SELECT id ...); let nextId = last ? last.id + 1 : 1
IdGet(r) ==
  /\ reqs[r].pc = "idGet"
  /\ LET last == SelectLastId(labels)
     IN reqs' = [reqs EXCEPT ![r] =
          IdLoopHead([reqs[r] EXCEPT !.nextNumber = IF last.isNull THEN 1 ELSE last.id + 1,
                                     !.stmts = @ \cup {"SELECT"}])]
  /\ UNCHANGED <<base, labels, seq, inTxn, saved, arrived, restarts, sheet, grid, client>>

\* await db.run(`INSERT INTO labels (code, printed) VALUES (?, 0)`, code);
\* inserted.push(code); nextId++.  No transaction is open: the row is committed at
\* once.  A throw (UNIQUE conflict, storage failure) goes to the catch, which answers
\* 500 'Allocation failed' and undoes nothing.
IdInsert(r) ==
  /\ reqs[r].pc = "idInsert"
  /\ \E ioError \in BOOLEAN :
       LET q == [reqs[r] EXCEPT !.stmts = @ \cup {"INSERT"}]
           code == IdCode(q.cleanPrefix, q.nextNumber)
       IN IF ioError \/ UniqueViolation(labels, code)
          THEN /\ reqs' = [reqs EXCEPT ![r] =
                    Respond([q EXCEPT !.ioFailed = @ \/ ioError], 500,
                            "Allocation failed", <<>>)]
               /\ UNCHANGED <<labels, seq>>
          ELSE /\ labels' = labels \cup {[id |-> seq + 1, code |-> code, by |-> r]}
               /\ seq' = seq + 1
               /\ reqs' = [reqs EXCEPT ![r] =
                    IdLoopHead([q EXCEPT !.inserted = Append(@, code),
                                         !.nextNumber = @ + 1,
                                         !.i = @ + 1])]
  /\ UNCHANGED <<base, inTxn, saved, arrived, restarts, sheet, grid, client>>

(* ------------------------------ rendering ----------------------------- *)

\* Number of codes in the body of a generate-sheet request.
MaxCodes == 130

\* Lengths are in hundredths of a PDF point (22.68 pt is 2268).
Pt(n) == n * 100

\* src/src/App.jsx: const LABEL = 72; COLS = 7; ROWS = 9; LABELS_PER_PAGE = 63;
\* MARGIN_L = 22.68; MARGIN_T = 35.43; GAP_X = 8.97; GAP_Y = 8.50; page [612, 792].
LABEL == Pt(72)
COLS == 7
ROWS == 9
LABELS_PER_PAGE == 63
MARGIN_L == 2268
MARGIN_T == 3543
GAP_X == 897
GAP_Y == 850
PAGE_HEIGHT == Pt(792)

\* src/server/server.js, inside its generate-sheet handler: MARGIN_L = 25.5;
\* MARGIN_T = 36.85; GAP_X = 9.5; GAP_Y = 8.79 (LABEL, COLS, ROWS as above).
SERVER_MARGIN_L == 2550
SERVER_MARGIN_T == 3685
SERVER_GAP_X == 950
SERVER_GAP_Y == 879

\* a % b of JavaScript: the remainder has the sign of the dividend.
JsRem(a, b) == IF a >= 0 THEN a % b ELSE -((-a) % b)

\* if (!codes || !codes.length): codes is missing from the body, or is empty.
NoCodesMissingOnly(codes) == ~codes.given

NoCodes(codes) == ~codes.given \/ Len(codes.list) = 0

ServerNoCodes(codes) == ~codes.given \/ Len(codes.list) = 0

NoSheet ==
  [handler |-> "", codes |-> [given |-> FALSE, list |-> <<>>], startIndex |-> 0,
   status |-> 0, error |-> "", pdf |-> FALSE, pages |-> <<>>]

\* What is drawn for one code: page.drawImage(qrImage, { x, y, width, height }) and
\* page.drawText(code, { y, size }), y being the text's baseline.
Art(qrX, qrY, qrWidth, qrHeight, textY, fontSize) ==
  [qrX |-> qrX, qrY |-> qrY, qrWidth |-> qrWidth, qrHeight |-> qrHeight,
   textY |-> textY, fontSize |-> fontSize]

\* One code drawn in a cell (QR image and text): its index in codes, the cell's
\* on-page position, row and column, the cell origin (x, y) and what is drawn.
Draw(i, pageIndex, row, col, x, y, art) ==
  [i |-> i, pageIndex |-> pageIndex, row |-> row, col |-> col, x |-> x, y |-> y,
   art |-> art]

\* src/src/App.jsx lines 591-596: FONT_SIZE = 9; TOP_PADDING = 2; TEXT_BAND = 12;
\* TEXT_GAP = 4; BOTTOM_PADDING = 4.
FONT_SIZE == Pt(9)
TOP_PADDING == Pt(2)
TEXT_BAND == Pt(12)
TEXT_GAP == Pt(4)
BOTTOM_PADDING == Pt(4)

\* const qrAvailable = LABEL - TOP_PADDING - TEXT_BAND - TEXT_GAP - BOTTOM_PADDING;
\* const qrSize = qrAvailable
QrAvailable == LABEL - TOP_PADDING - TEXT_BAND - TEXT_GAP - BOTTOM_PADDING

QrSize == QrAvailable

\* const qrX = x + (LABEL - qrSize) / 2
QrXFromLeft(x) == x + BOTTOM_PADDING

QrX(x) == x + (LABEL - QrSize) \div 2

\* const qrY = y + BOTTOM_PADDING
QrY(y) == y + BOTTOM_PADDING

\* const textY = y + BOTTOM_PADDING + qrSize + TEXT_GAP
TextY(y) == y + BOTTOM_PADDING + QrSize + TEXT_GAP

\* src/server/server.js line 162: const inset = 6
SERVER_INSET == Pt(6)

\* src/server/server.js lines 164-176: drawImage { x: x + inset, y: y + inset + 6,
\* width: LABEL - inset * 2, height: LABEL - inset * 2 - 10 };
\* drawText { x: x + 6, y: y + 4, size: 6 }
ServerArt(x, y) ==
  Art(x + SERVER_INSET, y + SERVER_INSET + Pt(6), LABEL - SERVER_INSET * 2,
      LABEL - SERVER_INSET * 2 - Pt(10), y + Pt(4), Pt(6))

\* const globalIndex = labelPosition + i
GlobalIndexNoOffset(labelPosition, i) == i

GlobalIndex(labelPosition, i) == labelPosition + i

\* if (i > 0 && pageIndex === 0) page = pdfDoc.addPage([612, 792])
StartsNewPageEvery(i, pageIndex) == pageIndex = 0

StartsNewPageLate(i, pageIndex) == i > 0 /\ pageIndex = 1

StartsNewPage(i, pageIndex) == i > 0 /\ pageIndex = 0

\* const row = Math.floor(pageIndex / COLS); const col = pageIndex % COLS
RowOfByRows(pageIndex) == pageIndex \div ROWS

RowOf(pageIndex) == pageIndex \div COLS

ColOf(pageIndex) == JsRem(pageIndex, COLS)

\* const x = MARGIN_L + col * (LABEL + GAP_X)
CellX(col) == MARGIN_L + col * (LABEL + GAP_X)

\* const y = 792 - MARGIN_T - (row + 1) * LABEL - row * GAP_Y
CellY(row) == PAGE_HEIGHT - MARGIN_T - (row + 1) * LABEL - row * GAP_Y

\* One pass of the loop of src/src/App.jsx lines 600-662, i++ included.  st holds
\* the loop's variables: the index i and the document so far, pages
\* (pdfDoc.addPage appends a page, draws go to the last page added).
SheetPass(codes, labelPosition, st) ==
  LET i == st.i
      globalIndex == GlobalIndex(labelPosition, i)
      pageIndex == JsRem(globalIndex, LABELS_PER_PAGE)
      doc == IF StartsNewPage(i, pageIndex) THEN Append(st.pages, <<>>) ELSE st.pages
      row == RowOf(pageIndex)
      col == ColOf(pageIndex)
      x == CellX(col)
      y == CellY(row)
  IN [i |-> i + 1,
      pages |-> [doc EXCEPT ![Len(doc)] =
                  Append(@, Draw(i, pageIndex, row, col, x, y,
                                 Art(QrX(x), QrY(y), QrSize, QrSize, TextY(y), FONT_SIZE)))]]

\* The passes of the loop from index st.i up to index hi-1, in order: those up to
\* the middle index, then the rest.
RECURSIVE SheetPasses(_, _, _, _)
SheetPasses(codes, labelPosition, hi, st) ==
  IF st.i >= hi THEN st
  ELSE IF st.i + 1 = hi THEN SheetPass(codes, labelPosition, st)
  ELSE SheetPasses(codes, labelPosition, hi,
                   SheetPasses(codes, labelPosition, (st.i + hi) \div 2, st))

\* for (let i = 0; i < codes.length; i++) { ... } from index i on.
SheetLoop(codes, labelPosition, i, pages) ==
  SheetPasses(codes, labelPosition, Len(codes), [i |-> i, pages |-> pages]).pages

\* A generate-sheet handler that records in the labels table the codes it printed.
GenerateSheetRecording(codes, startIndex) ==
  /\ sheet = NoSheet
  /\ IF NoCodes(codes)
     THEN /\ sheet' = [NoSheet EXCEPT !.handler = "app", !.codes = codes,
                                      !.startIndex = startIndex,
                                      !.status = 400, !.error = "No codes provided"]
          /\ UNCHANGED <<labels, seq>>
     ELSE /\ sheet' = [NoSheet EXCEPT !.handler = "app", !.codes = codes,
                                      !.startIndex = startIndex,
                                      !.status = 200, !.pdf = TRUE,
                                      !.pages = SheetLoop(codes.list, startIndex - 1, 0, <<<<>>>>)]
          /\ labels' = labels \cup {[id |-> seq + 1, code |-> codes.list[1], by |-> 0]}
          /\ seq' = seq + 1
  /\ UNCHANGED <<base, inTxn, saved, reqs, arrived, restarts, grid, client>>

\* POST /api/generate-sheet of src/src/App.jsx: { codes, startIndex = 1 }.  A throw
\* while the document is built (renderError: QRCode.toDataURL or pdf-lib rejects) is
\* caught: 500 'Sheet generation failed', no document is sent.
GenerateSheet(codes, startIndex) ==
  /\ sheet = NoSheet
  /\ \E renderError \in BOOLEAN :
       sheet' =
         IF NoCodes(codes)
         THEN [NoSheet EXCEPT !.handler = "app", !.codes = codes, !.startIndex = startIndex,
                              !.status = 400, !.error = "No codes provided"]
         ELSE IF renderError
         THEN [NoSheet EXCEPT !.handler = "app", !.codes = codes, !.startIndex = startIndex,
                              !.status = 500, !.error = "Sheet generation failed"]
         ELSE [NoSheet EXCEPT !.handler = "app", !.codes = codes, !.startIndex = startIndex,
                              !.status = 200, !.pdf = TRUE,
                              !.pages = SheetLoop(codes.list, startIndex - 1, 0, <<<<>>>>)]
  /\ UNCHANGED <<base, labels, seq, inTxn, saved, reqs, arrived, restarts, grid, client>>

\* The inner loop of src/server/server.js lines 137-179: for (col ...) { if (index >=
\* codes.length) break; ... index++ }.  st holds the variables col and index and the
\* draws made so far.
RECURSIVE ServerColLoop(_, _, _)
ServerColLoop(codes, row, st) ==
  IF st.col >= COLS \/ st.index >= Len(codes) THEN st
  ELSE LET col == st.col
           x == SERVER_MARGIN_L + col * (LABEL + SERVER_GAP_X)
           y == PAGE_HEIGHT - SERVER_MARGIN_T - (row + 1) * LABEL - row * SERVER_GAP_Y
       IN ServerColLoop(codes, row,
            [col |-> col + 1, index |-> st.index + 1,
             draws |-> Append(st.draws, Draw(st.index, row * COLS + col, row, col, x, y,
                                             ServerArt(x, y)))])

\* The outer loop of src/server/server.js lines 136-180: for (row ...) over one page.
RECURSIVE ServerRowLoop(_, _, _, _)
ServerRowLoop(codes, row, index, draws) ==
  IF row >= ROWS THEN draws
  ELSE LET st == ServerColLoop(codes, row, [col |-> 0, index |-> index, draws |-> draws])
       IN ServerRowLoop(codes, row + 1, st.index, st.draws)

\* POST /api/generate-sheet of src/server/server.js: const { codes } = req.body, one
\* page; a throw while the document is built is caught: 500 'Sheet generation
\* failed'.  The body is the one printSheet of src/client/src/App.jsx sends,
\* { codes, startIndex }: the handler reads codes alone.
ServerGenerateSheet(codes, startIndex) ==
  /\ sheet = NoSheet
  /\ \E renderError \in BOOLEAN :
       sheet' =
         IF ServerNoCodes(codes)
         THEN [NoSheet EXCEPT !.handler = "server", !.codes = codes,
                              !.startIndex = startIndex,
                              !.status = 400, !.error = "No codes provided"]
         ELSE IF renderError
         THEN [NoSheet EXCEPT !.handler = "server", !.codes = codes,
                              !.startIndex = startIndex,
                              !.status = 500, !.error = "Sheet generation failed"]
         ELSE [NoSheet EXCEPT !.handler = "server", !.codes = codes,
                              !.startIndex = startIndex,
                              !.status = 200, !.pdf = TRUE,
                              !.pages = <<ServerRowLoop(codes.list, 0, 0, <<>>)>>]
  /\ UNCHANGED <<base, labels, seq, inTxn, saved, reqs, arrived, restarts, grid, client>>

(* ------------------------------ test grid ----------------------------- *)

NoGrid == [handler |-> "", status |-> 0, error |-> "", pdf |-> FALSE, cells |-> <<>>]

\* What one pass of the test-grid loops draws in a cell: the rectangle (x, y, LABEL,
\* LABEL); with crosshair, two lines of half-length arm through (cx, cy); with a
\* number (0: none), String(counter) centred on cx with its baseline at textY.
GridCell(row, col, x, y, crosshair, number) ==
  [row |-> row, col |-> col, x |-> x, y |-> y, width |-> LABEL, height |-> LABEL,
   crosshair |-> crosshair, cx |-> x + LABEL \div 2, cy |-> y + LABEL \div 2,
   arm |-> Pt(6), number |-> number, textY |-> y + LABEL \div 2 - Pt(5)]

\* test-grid of src/src/App.jsx: const x = MARGIN_L + col * (LABEL + GAP_X)
TestGridX(col) == MARGIN_L + col * (LABEL + GAP_X)

\* test-grid of src/src/App.jsx: const y = 792 - MARGIN_T - (row + 1) * LABEL - row * GAP_Y
TestGridYFromTop(row) == MARGIN_T + row * (LABEL + GAP_Y)

TestGridY(row) == PAGE_HEIGHT - MARGIN_T - (row + 1) * LABEL - row * GAP_Y

\* for (let col = 0; col < COLS; col++) { drawRectangle; drawLine; drawLine;
\* drawText(String(counter)); counter++ }  (src/src/App.jsx lines 516-562).  st holds
\* the variables col and counter and the cells drawn so far.
RECURSIVE TestGridColLoop(_, _)
TestGridColLoop(row, st) ==
  IF st.col >= COLS THEN st
  ELSE TestGridColLoop(row,
         [col |-> st.col + 1, counter |-> st.counter + 1,
          cells |-> Append(st.cells,
                           GridCell(row, st.col, TestGridX(st.col), TestGridY(row),
                                    TRUE, st.counter))])

\* let counter = 1; for (let row = 0; row < ROWS; row++) { ... }
RECURSIVE TestGridLoop(_, _, _)
TestGridLoop(row, counter, cells) ==
  IF row >= ROWS THEN cells
  ELSE LET st == TestGridColLoop(row, [col |-> 0, counter |-> counter, cells |-> cells])
       IN TestGridLoop(row + 1, st.counter, st.cells)

\* GET /api/test-grid of src/src/App.jsx: one page; a throw while the document is
\* built (renderError) is caught: 500 'Test grid failed'.
TestGrid ==
  /\ grid = NoGrid
  /\ \E renderError \in BOOLEAN :
       grid' = IF renderError
               THEN [NoGrid EXCEPT !.handler = "app", !.status = 500,
                                   !.error = "Test grid failed"]
               ELSE [NoGrid EXCEPT !.handler = "app", !.status = 200, !.pdf = TRUE,
                                   !.cells = TestGridLoop(0, 1, <<>>)]
  /\ UNCHANGED <<base, labels, seq, inTxn, saved, reqs, arrived, restarts, sheet, client>>

\* for (let col = 0; col < COLS; col++) { drawRectangle } of src/server/server.js
\* lines 84-99, with the constants of lines 74-81.  st holds the variable col and the
\* cells drawn so far.
RECURSIVE ServerTestGridColLoop(_, _)
ServerTestGridColLoop(row, st) ==
  IF st.col >= COLS THEN st
  ELSE ServerTestGridColLoop(row,
         [col |-> st.col + 1,
          cells |-> Append(st.cells,
                      GridCell(row, st.col, SERVER_MARGIN_L + st.col * (LABEL + SERVER_GAP_X),
                               PAGE_HEIGHT - SERVER_MARGIN_T - (row + 1) * LABEL
                                 - row * SERVER_GAP_Y,
                               FALSE, 0))])

\* for (let row = 0; row < ROWS; row++) { ... } of src/server/server.js lines 83-100.
RECURSIVE ServerTestGridLoop(_, _)
ServerTestGridLoop(row, cells) ==
  IF row >= ROWS THEN cells
  ELSE ServerTestGridLoop(row + 1,
         ServerTestGridColLoop(row, [col |-> 0, cells |-> cells]).cells)

\* GET /api/test-grid of src/server/server.js: rectangles only.
ServerTestGrid ==
  /\ grid = NoGrid
  /\ \E renderError \in BOOLEAN :
       grid' = IF renderError
               THEN [NoGrid EXCEPT !.handler = "server", !.status = 500,
                                   !.error = "Test grid failed"]
               ELSE [NoGrid EXCEPT !.handler = "server", !.status = 200, !.pdf = TRUE,
                                   !.cells = ServerTestGridLoop(0, <<>>)]
  /\ UNCHANGED <<base, labels, seq, inTxn, saved, reqs, arrived, restarts, sheet, client>>

(* ------------------ browser-side generator (src/src/App.jsx) ----------- *)

\* clampInt(start, 0, 999999), clampInt(count, 1, 999999), Math.min(999999, max + 1)
MAX_START == 999999

\* String(n).padStart(6, "0"); /([0-9]{6})/
PAD6_WIDTH == 6

\* The value of a number input, Number(value): hundredths of units (150 is 1.5),
\* or NaN.
Num(h) == [nan |-> FALSE, h |-> h]

\* Math.trunc(x) of a value in hundredths: towards zero.
Trunc(h) == IF h >= 0 THEN h \div 100 ELSE -((-h) \div 100)

\* function clampInt(n, min, max)
ClampInt(n, min, max) ==
  IF n.nan THEN min
  ELSE LET x == Trunc(n.h)
       IN IF x > max THEN max ELSE IF x < min THEN min ELSE x

\* function pad6(n)
Pad6(n) == PadStart(NumToString(n), PAD6_WIDTH, "0")

\* function buildCodes({ prefix, start, count }); st holds the loop's variable i and
\* the array out.
RECURSIVE BuildCodesLoop(_, _, _, _)
BuildCodesLoop(prefix, start, count, st) ==
  IF st.i >= count THEN st.out
  ELSE BuildCodesLoop(prefix, start, count,
         [i |-> st.i + 1, out |-> Append(st.out, prefix \o "-" \o Pad6(start + st.i))])

BuildCodes(safe) ==
  BuildCodesLoop(safe.prefix, safe.start, safe.count, [i |-> 0, out |-> <<>>])

\* s.trim(): leading and trailing blanks removed.
RECURSIVE Trim(_)
Trim(s) ==
  IF Len(s) = 0 THEN s
  ELSE IF CharAt(s, 1) = " " THEN Trim(SubSeq(s, 2, Len(s)))
  ELSE IF CharAt(s, Len(s)) = " " THEN Trim(SubSeq(s, 1, Len(s) - 1))
  ELSE s

\* (prefix || "T").trim().slice(0, 1).toUpperCase()
SafePrefix(prefix) ==
  LET p == Trim(IF prefix = "" THEN "T" ELSE prefix)
  IN ToUpperCase(SubSeq(p, 1, IF Len(p) >= 1 THEN 1 ELSE 0))

\* const safe = useMemo(...): the form's state as the generator uses it.
Safe(form) ==
  [prefix |-> SafePrefix(form.prefix),
   start |-> ClampInt(form.start, 0, MAX_START),
   count |-> ClampInt(form.count, 1, MAX_START)]

IsLetter(c) ==
  \E k \in 1..26 : c = CharAt(UpperLetters, k) \/ c = CharAt(LowerLetters, k)

\* \w of a regular expression.
IsWordChar(c) == IsLetter(c) \/ IsDigit(c) \/ c = "_"

\* /\b([A-Za-z])-([0-9]{6})\b/ matches at position k of text.
TokenAt(text, k) ==
  /\ k + PAD6_WIDTH + 1 <= Len(text)
  /\ (k = 1 \/ ~IsWordChar(CharAt(text, k - 1)))
  /\ IsLetter(CharAt(text, k))
  /\ CharAt(text, k + 1) = "-"
  /\ \A j \in (k + 2)..(k + PAD6_WIDTH + 1) : IsDigit(CharAt(text, j))
  /\ (k + PAD6_WIDTH + 1 = Len(text) \/ ~IsWordChar(CharAt(text, k + PAD6_WIDTH + 2)))

NoMax == [isNull |-> TRUE, v |-> 0]

\* function parseHighestFromCsv(text): while ((m = re.exec(text))) { num = Number(m[2]);
\* max = max === null ? num : Math.max(max, num) }.  st holds re.lastIndex (1-based:
\* the position k the next search starts at) and max.
RECURSIVE ParseLoop(_, _)
ParseLoop(text, st) ==
  LET k == st.k
  IN IF k > Len(text) THEN st.max
     ELSE IF TokenAt(text, k)
     THEN LET num == CastDigits(SubSeq(text, k + 2, k + PAD6_WIDTH + 1), 0)
          IN ParseLoop(text,
               [k |-> k + PAD6_WIDTH + 2,
                max |-> IF st.max.isNull \/ num > st.max.v
                        THEN [isNull |-> FALSE, v |-> num] ELSE st.max])
     ELSE ParseLoop(text, [k |-> k + 1, max |-> st.max])

ParseHighestFromCsv(text) == ParseLoop(text, [k |-> 1, max |-> NoMax])

NoImport == [active |-> FALSE, prefix |-> "", text |-> ""]

\* useState("T"), useState(6519), useState(63)
InitialForm ==
  [prefix |-> "T", start |-> Num(651900), count |-> Num(6300), pending |-> NoImport]

\* onChange={(e) => setPrefix(e.target.value)}
SetPrefix(value) ==
  /\ client' = [client EXCEPT !.prefix = value]
  /\ UNCHANGED <<base, labels, seq, inTxn, saved, reqs, arrived, restarts, sheet, grid>>

\* onChange={(e) => setStart(e.target.value)}
SetStart(value) ==
  /\ client' = [client EXCEPT !.start = value]
  /\ UNCHANGED <<base, labels, seq, inTxn, saved, reqs, arrived, restarts, sheet, grid>>

\* onChange={(e) => setCount(e.target.value)}
SetCount(value) ==
  /\ client' = [client EXCEPT !.count = value]
  /\ UNCHANGED <<base, labels, seq, inTxn, saved, reqs, arrived, restarts, sheet, grid>>

\* onImportRegistryCsv(file) up to `await file.text()`: the handler holds the prefix
\* of the render in which the file was chosen.
ImportRegistryCsv(text) ==
  /\ ~client.pending.active
  /\ client' = [client EXCEPT !.pending =
                  [active |-> TRUE, prefix |-> client.prefix, text |-> text]]
  /\ UNCHANGED <<base, labels, seq, inTxn, saved, reqs, arrived, restarts, sheet, grid>>

\* const max = parseHighestFromCsv(text); if (max !== null) { setPrefix(...);
\* setStart(Math.min(999999, max + 1)) }
NextStart(max) == IF max + 1 > MAX_START THEN MAX_START ELSE max + 1

ImportRegistryCsvDone ==
  /\ client.pending.active
  /\ LET max == ParseHighestFromCsv(client.pending.text)
     IN client' =
          IF max.isNull THEN [client EXCEPT !.pending = NoImport]
          ELSE [client EXCEPT !.pending = NoImport,
                              !.prefix = SafePrefix(client.pending.prefix),
                              !.start = Num(NextStart(max.v) * 100)]
  /\ UNCHANGED <<base, labels, seq, inTxn, saved, reqs, arrived, restarts, sheet, grid>>

(* --------------------------- specifications --------------------------- *)

\* Number of allocate-batch requests of a behaviour whose requests are issued one
\* at a time.
MaxCalls == 3

Given(s) == [given |-> TRUE, s |-> s]
Missing == [given |-> FALSE, s |-> ""]
IntCount(v) == [kind |-> "int", v |-> v]
OtherCount(kind) == [kind |-> kind, v |-> 0]

\* Sizes of the block of rows found in the database file at start: none, or a
\* ledger that earlier runs have filled up to one number below the maximum.
InitialBases == {0, MAX_NUMBER - 1}

\* Request bodies of the concurrent behaviours: {} (prefix 'T', count 1),
\* {prefix: 't', count: 2} and the invalid {prefix: 'T', count: 0}.
ConcBodies ==
  {[prefix |-> Missing, count |-> OtherCount("missing")],
   [prefix |-> Given("t"), count |-> IntCount(2)],
   [prefix |-> Given("T"), count |-> IntCount(0)]}

\* Request bodies of the one-at-a-time behaviours: valid ones, ones with a bad
\* prefix, ones with a bad count.
SeqBodies ==
  {[prefix |-> Missing, count |-> OtherCount("missing")],
   [prefix |-> Given("t"), count |-> IntCount(2)],
   [prefix |-> Missing, count |-> IntCount(3)],
   [prefix |-> Given("T1"), count |-> OtherCount("missing")],
   [prefix |-> Given("T1"), count |-> IntCount(2)]}
  \cup {[prefix |-> Given(s), count |-> IntCount(2)] : s \in {"", "T-", "ABCD"}}
  \cup {[prefix |-> Given("T"), count |-> c] :
          c \in {IntCount(0), IntCount(MAX_COUNT + 1), OtherCount("fraction"),
                 OtherCount("text")}}

Init ==
  /\ base \in InitialBases
  /\ labels = {}
  /\ seq = base
  /\ inTxn = FALSE
  /\ saved = NoSnapshot
  /\ reqs = [r \in Reqs |-> IdleReq]
  /\ arrived = 0
  /\ restarts = 0
  /\ sheet = NoSheet
  /\ grid = NoGrid
  /\ client = InitialForm

ReceiveAny == \E body \in ConcBodies : Receive(body)

ReceiveNext ==
  /\ arrived < MaxCalls
  /\ \A r \in Reqs : ~InFlight(r)
  /\ \E body \in SeqBodies : Receive(body)

Step ==
  \E r \in Reqs : Get(r) \/ Begin(r) \/ Insert(r) \/ Rollback(r) \/ Commit(r) \/ Catch(r)

Next == ReceiveAny \/ Step

\* Requests arrive at any time and their handlers interleave at every await.
Spec == Init /\ [][Next]_vars

NextSeq == ReceiveNext \/ Step \/ Restart

\* Requests are issued one at a time: the next one after the previous has answered
\* (or was lost in a restart).
SpecSeq == Init /\ [][NextSeq]_vars

\* The codes in the body of a generate-sheet request: the first k codes of prefix T.
CodeList(k) == [j \in 1..k |-> MakeCode(DEFAULT_PREFIX, j)]

\* Bodies of generate-sheet requests: codes missing, or a list of 0..MaxCodes codes.
SheetCodes ==
  {[given |-> FALSE, list |-> <<>>]}
  \cup {[given |-> TRUE, list |-> CodeList(k)] : k \in 0..MaxCodes}

\* startIndex values of the bodies (1 when the body has none).
StartIndexes == {-1, 0, 1, 2, LABELS_PER_PAGE, LABELS_PER_PAGE + 1}

GenerateSheetAny ==
  \E codes \in SheetCodes : \E startIndex \in StartIndexes : GenerateSheet(codes, startIndex)

ServerGenerateSheetAny ==
  \E codes \in SheetCodes : \E startIndex \in StartIndexes :
    ServerGenerateSheet(codes, startIndex)

NextRender == GenerateSheetAny \/ ServerGenerateSheetAny \/ TestGrid \/ ServerTestGrid

\* The rendering requests alone: one generate-sheet and one test-grid request.
SpecRender == Init /\ [][NextRender]_vars

\* Number of allocate-batch requests of the behaviours that mix allocation and
\* rendering.
MaxMixedRequests == 2

\* Request body of the mixed behaviours: {prefix: 't', count: 2}.
MixedBodies == {[prefix |-> Given("t"), count |-> IntCount(2)]}

ReceiveMixed ==
  /\ arrived < MaxMixedRequests
  /\ \E body \in MixedBodies : Receive(body)

\* Bodies of the generate-sheet requests of the mixed behaviours.
MixedSheetCodes ==
  {[given |-> FALSE, list |-> <<>>], [given |-> TRUE, list |-> CodeList(2)]}

GenerateSheetMixed == \E codes \in MixedSheetCodes : GenerateSheet(codes, 1)

ServerGenerateSheetMixed == \E codes \in MixedSheetCodes : ServerGenerateSheet(codes, 1)

NextMixed ==
  \/ ReceiveMixed
  \/ Step
  \/ GenerateSheetMixed
  \/ ServerGenerateSheetMixed
  \/ TestGrid
  \/ ServerTestGrid

\* Rendering requests arriving at any time between the steps of concurrent
\* allocate-batch requests.
SpecMixed == Init /\ [][NextMixed]_vars

\* Request bodies of the id-based allocator: {} (prefix 'T', count 1),
\* {prefix: 'T', count: 2}, {prefix: 'A', count: 2} and {count: 0}.
IdBodies ==
  {[prefix |-> Missing, count |-> OtherCount("missing")],
   [prefix |-> Given("T"), count |-> IntCount(2)],
   [prefix |-> Given("A"), count |-> IntCount(2)],
   [prefix |-> Missing, count |-> IntCount(0)]}

InitId == Init /\ base = 0

\* Number of requests the id-based allocator receives in one behaviour.
MaxIdRequests == 3

IdReceiveAny ==
  /\ arrived < MaxIdRequests
  /\ \E body \in IdBodies : IdReceive(body)

IdStep == \E r \in Reqs : IdGet(r) \/ IdInsert(r)

NextId == IdReceiveAny \/ IdStep

\* The id-based allocator: requests arrive at any time and their handlers
\* interleave at every await.
SpecId == InitId /\ [][NextId]_vars

\* Number of allocate-batch requests of the behaviours that mix prefixes.
MaxPrefixRequests == 2

\* Request bodies of the behaviours that mix prefixes: one prefix a leading substring
\* of the next, two of them ending in digits.
PrefixBodies ==
  {[prefix |-> Given("T"), count |-> IntCount(2)],
   [prefix |-> Given("t1"), count |-> OtherCount("missing")],
   [prefix |-> Given("T10"), count |-> OtherCount("missing")]}

ReceivePrefix ==
  /\ arrived < MaxPrefixRequests
  /\ \E body \in PrefixBodies : Receive(body)

NextPrefix == ReceivePrefix \/ Step

\* Concurrent allocate-batch requests for prefixes T, T1 and T10.
SpecPrefix == Init /\ [][NextPrefix]_vars

\* Number of allocate-batch requests of the behaviours that end with a request
\* issued alone: the last one is issued once all the others have answered.
MaxRecoverRequests == 3

\* Request bodies of the request issued alone: {} and {prefix: 't', count: 2}.
LaterBodies ==
  {[prefix |-> Missing, count |-> OtherCount("missing")],
   [prefix |-> Given("t"), count |-> IntCount(2)]}

\* A request arrives while the earlier ones may be in flight.
ReceiveEarlier ==
  /\ arrived < MaxRecoverRequests - 1
  /\ \E body \in ConcBodies : Receive(body)

\* The last request arrives after every earlier one has answered.
ReceiveLater ==
  /\ arrived = MaxRecoverRequests - 1
  /\ \A r \in Reqs : ~InFlight(r)
  /\ \E body \in LaterBodies : Receive(body)

NextRecover == ReceiveEarlier \/ ReceiveLater \/ Step

\* Concurrent requests, then one request alone.
SpecRecover == Init /\ [][NextRecover]_vars

\* Largest count typed into the form of the browser-side generator.
MaxFormCount == 3

PrefixInputs == {"", "T", "t", " ab"}

\* Start numbers typed into the form: -1, 0, 6.5, 999998, 999999, 1000000.
StartInputs == {Num(h) : h \in {-100, 0, 650, 99999800, 99999900, 100000000}}

\* Counts typed into the form: 0 .. MaxFormCount and 2.5.
CountInputs == {Num(k * 100) : k \in 0..MaxFormCount} \cup {Num(250)}

\* Registry files: no code; codes of one prefix; codes of two prefixes; the highest
\* 6-digit code; tokens the pattern does not match (two-letter prefix, 7 digits).
RegistryTexts ==
  {"code,printed_at", "code,T-000005,x", "T-000005,a-000123", "T-999999",
   "AB-000123", "T-0065190", "t-999998,T-000001"}

NextClient ==
  \/ \E value \in PrefixInputs : SetPrefix(value)
  \/ \E value \in StartInputs : SetStart(value)
  \/ \E value \in CountInputs : SetCount(value)
  \/ \E text \in RegistryTexts : ImportRegistryCsv(text)
  \/ ImportRegistryCsvDone

\* The browser-side generator alone.
SpecClient == Init /\ [][NextClient]_vars

(* ------------------------------ properties ---------------------------- *)

Range(f) == {f[k] : k \in DOMAIN f}

Done(r) == reqs[r].pc = "done"

Succeeded(r) == Done(r) /\ reqs[r].res.status = 200

Failed(r) == Done(r) /\ reqs[r].res.status \in {400, 500}

\* No two rows of a table view carry the same code, the rows of the database file
\* found at start included.
UniqueCodes(rows) ==
  /\ \A a, b \in rows : a.code = b.code => a = b
  /\ \A a \in rows : ~InBase(a.code)

\* C1: in every reachable state, whatever the interleaving of the allocate-batch
\* requests, no two label records have the same code string, in the table as the
\* connection sees it and in the committed ledger.
C1_Uniqueness == UniqueCodes(labels) /\ UniqueCodes(Committed)

\* C1 witness: two requests have answered 200 and a third lost a UNIQUE conflict
\* (its INSERT threw without a storage failure), with rows in the ledger.
C1_Witness ==
  /\ \E r1, r2 \in Reqs : r1 # r2 /\ Succeeded(r1) /\ Succeeded(r2)
  /\ \E r \in Reqs : /\ Done(r) /\ reqs[r].res.status = 500 /\ ~reqs[r].ioFailed
                     /\ "INSERT" \in reqs[r].stmts
  /\ Cardinality(Committed) >= 2

\* No request has met a storage failure.
NoStorageFailure == \A r \in Reqs : ~reqs[r].ioFailed

\* C2: under every interleaving (the storage never failing), no code appears in
\* the success responses of two different requests.
C2_NoOverlap ==
  NoStorageFailure
    => \A r1, r2 \in Reqs :
         (r1 # r2 /\ Succeeded(r1) /\ Succeeded(r2))
           => Range(reqs[r1].res.codes) \cap Range(reqs[r2].res.codes) = {}

\* C3: under every interleaving (the storage never failing), a request that
\* answered with an error (400 or 500) has left none of the rows it inserted in the
\* committed ledger.
C3_FailedLeavesNoTrace ==
  NoStorageFailure
    => \A r \in Reqs : Failed(r) => ~\E row \in Committed : row.by = r

\* max_suffix(prefix) + count exceeds the width maximum, on the committed ledger.
Exhausting(r) ==
  LET row == SelectMaxNum(Committed, reqs[r].cleanPrefix)
  IN (IF row.isNull THEN 0 ELSE row.max_num) + reqs[r].n > MAX_NUMBER

IsExhaustionError(res) ==
  res.status = 400 /\ res.error = "Prefix exhausted (max 99999)" /\ res.codes = <<>>

\* C4: with requests issued one at a time, no step of a call whose
\* max_suffix(prefix) + count exceeds 99999 changes the committed ledger, and the
\* call never answers 200: it answers with the exhaustion error (or, when the
\* storage failed under it first, with another error).
C4_ExhaustionAtomic ==
  [][\A r \in Reqs :
       (InFlight(r) /\ Exhausting(r))
         => /\ Committed' = Committed
            /\ reqs'[r].pc = "done"
                 => /\ reqs'[r].res.status # 200
                    /\ ~reqs'[r].ioFailed => IsExhaustionError(reqs'[r].res)]_vars

\* C4 witness: a call answered with the exhaustion error after it had inserted a
\* number still below the maximum; none of its rows is in the ledger.
C4_Witness ==
  \E r \in Reqs :
    /\ Done(r) /\ IsExhaustionError(reqs[r].res)
    /\ Len(reqs[r].inserted) >= 1
    /\ ~\E row \in labels : row.by = r

\* C5: the ROLLBACK of a failing request removes only rows that this request
\* inserted, and no INSERT of any request ever runs outside a transaction (where
\* it would be committed on its own).
C5_ErrorIsolation ==
  [][/\ \A r \in Reqs :
          (reqs[r].pc \in {"rollback", "catch"} /\ reqs'[r].pc # reqs[r].pc)
            => \A row \in labels \ labels' : row.by = r
     /\ (labels' \ labels # {}) => inTxn]_vars

\* The numeric suffix of a code of the given prefix.
SuffixOf(code, cleanPrefix) == CastInteger(Substr(code, Len(cleanPrefix) + 1))

\* The suffixes stored for a prefix in a table view.
Suffixes(rows, cleanPrefix) ==
  {SuffixOf(row.code, cleanPrefix) : row \in {x \in rows : GlobMatch(x.code, cleanPrefix)}}

\* C6: with requests issued one at a time, also across a restart, every suffix
\* returned by a later successful call is strictly greater than every suffix
\* returned by an earlier successful call for the same prefix.
C6_Monotonic ==
  \A r1, r2 \in Reqs :
    (r1 < r2 /\ Succeeded(r1) /\ Succeeded(r2)
       /\ reqs[r1].cleanPrefix = reqs[r2].cleanPrefix)
      => \A c1 \in Range(reqs[r1].res.codes) : \A c2 \in Range(reqs[r2].res.codes) :
           SuffixOf(c2, reqs[r2].cleanPrefix) > SuffixOf(c1, reqs[r1].cleanPrefix)

\* C6 witness: two successful calls for one prefix with a call lost in a restart
\* between them.
C6_Witness ==
  \E r1, r2, r3 \in Reqs :
    /\ r1 < r2 /\ r2 < r3
    /\ Succeeded(r1) /\ reqs[r2].pc = "lost" /\ Succeeded(r3)
    /\ reqs[r1].cleanPrefix = reqs[r3].cleanPrefix

\* The count a request body asks for (1 when it names none).
AskedCount(body) == IF body.count.kind = "missing" THEN 1 ELSE body.count.v

\* The suffixes stored for every prefix in use are exactly 1..k.
Contiguous(rows) ==
  \A r \in Reqs :
    reqs[r].cleanPrefix # ""
      => LET S == Suffixes(rows, reqs[r].cleanPrefix) IN S = 1..Cardinality(S)

C8_RoundTrip ==
  (base = 0 /\ Succeeded(1) /\ reqs[1].cleanPrefix = "T" /\ reqs[1].n = 3)
    => LET second == Succeeded(2) /\ reqs[2].cleanPrefix = "T" /\ reqs[2].n = 2
       IN \/ /\ reqs[1].res.codes = <<"T-000001", "T-000002", "T-000003">>
             /\ second => reqs[2].res.codes = <<"T-000004", "T-000005">>
          \/ /\ reqs[1].res.codes = <<"T-00001", "T-00002", "T-00003">>
             /\ second => reqs[2].res.codes = <<"T-00004", "T-00005">>

\* A character that upper-cases to one of A-Z, 0-9.
IsAlnum(c) ==
  \/ \E k \in 1..26 : c = CharAt(UpperLetters, k) \/ c = CharAt(LowerLetters, k)
  \/ \E d \in 1..10 : c = CharAt(Digits, d)

\* The body's upper-cased prefix is not 1 to 3 characters of A-Z/0-9, or its count
\* is not an integer in 1..500 (a missing field takes its default and is valid).
InvalidBody(body) ==
  \/ /\ body.prefix.given
     /\ ~(Len(body.prefix.s) \in 1..3
          /\ \A k \in 1..Len(body.prefix.s) : IsAlnum(CharAt(body.prefix.s, k)))
  \/ /\ body.count.kind # "missing"
     /\ ~(body.count.kind = "int" /\ body.count.v \in 1..500)

IsValidationError(res) ==
  /\ res.status = 400
  /\ res.error \in {"Prefix must be 1-3 alphanumeric characters",
                    "Count must be an integer between 1 and 500"}
  /\ res.codes = <<>>

\* C9: the step that receives a request with an invalid body answers it with a
\* validation error and leaves the table, the connection and the ledger unchanged;
\* such a request never issues a statement.
C9_ValidationFirst ==
  [][\A r \in Reqs :
       (reqs'[r].pc # "idle" /\ InvalidBody(reqs'[r].body))
         => /\ reqs'[r].pc = "done"
            /\ IsValidationError(reqs'[r].res)
            /\ reqs'[r].stmts = {}
            /\ reqs'[r].inserted = <<>>
            /\ reqs[r].pc = "idle" => UNCHANGED <<base, labels, seq, inTxn, saved>>]_vars

\* C9 witness: an invalid request was answered 400 without a statement while the
\* ledger held rows.
C9_Witness ==
  \E r \in Reqs :
    /\ Done(r) /\ InvalidBody(reqs[r].body) /\ IsValidationError(reqs[r].res)
    /\ reqs[r].stmts = {}
    /\ Cardinality(Committed) >= 2

\* C10: a generate-sheet request (either handler) whose codes are missing or empty
\* is answered 400 "No codes provided" and no document is created or returned.
C10_EmptyInput ==
  (sheet.handler # "" /\ (~sheet.codes.given \/ sheet.codes.list = <<>>))
    => /\ sheet.status = 400
       /\ sheet.error = "No codes provided"
       /\ ~sheet.pdf
       /\ sheet.pages = <<>>

\* C10 witness: the handler of src/src/App.jsx answered 400 to an empty codes list.
C10_Witness ==
  /\ sheet.handler = "app"
  /\ sheet.codes.given /\ sheet.codes.list = <<>>
  /\ sheet.status = 400

\* The generate-sheet handler of src/src/App.jsx answered with a document.
Rendered == sheet.handler = "app" /\ sheet.status = 200

\* The startIndex and the number of codes of the request.
StartPosition == sheet.startIndex
CodeCount == Len(sheet.codes.list)

\* The draws of the document with the 0-based index of the page they are on.
PlacedDraws ==
  UNION {{[page |-> k - 1, draw |-> sheet.pages[k][j]] : j \in DOMAIN sheet.pages[k]} :
           k \in DOMAIN sheet.pages}

\* Every code of the request is drawn exactly once.
EachCodeOnce ==
  /\ \A i \in 0..(CodeCount - 1) : \E d \in PlacedDraws : d.draw.i = i
  /\ \A d1, d2 \in PlacedDraws : d1.draw.i = d2.draw.i => d1 = d2

\* C11 as stated: for a start position s >= 1 the code at local index i is on the
\* page of index floor((s-1+i)/63), at on-page position (s-1+i) mod 63.
C11_PlacementAsStated ==
  (Rendered /\ StartPosition >= 1)
    => \A d \in PlacedDraws :
         /\ d.page = (StartPosition - 1 + d.draw.i) \div LABELS_PER_PAGE
         /\ d.draw.pageIndex = (StartPosition - 1 + d.draw.i) % LABELS_PER_PAGE

\* C11: for a start position s >= 1 and n >= 1 codes, every code is drawn once, the
\* code at local index i on the page of index floor((s-1+i)/63) - floor((s-1)/63)
\* of the document (floor((s-1+i)/63) when s <= 63), at on-page position
\* (s-1+i) mod 63.
C11_Placement ==
  (Rendered /\ StartPosition >= 1)
    => /\ EachCodeOnce
       /\ \A d \in PlacedDraws :
            /\ d.page = (StartPosition - 1 + d.draw.i) \div LABELS_PER_PAGE
                          - (StartPosition - 1) \div LABELS_PER_PAGE
            /\ d.draw.pageIndex = (StartPosition - 1 + d.draw.i) % LABELS_PER_PAGE

\* C11 witness: a document of two pages rendered from start position 64.
C11_Witness ==
  /\ Rendered
  /\ StartPosition = LABELS_PER_PAGE + 1
  /\ Len(sheet.pages) = 2
  /\ Len(sheet.pages[2]) >= 1

\* ceil(a / b) for a >= 0, b > 0.
Ceil(a, b) == (a + b - 1) \div b

\* C12 as stated: for n >= 1 codes and a start position in 1..63 the document has
\* exactly ceil(n / 63) pages.
C12_PageCountAsStated ==
  (Rendered /\ StartPosition \in 1..LABELS_PER_PAGE)
    => Len(sheet.pages) = Ceil(CodeCount, LABELS_PER_PAGE)

\* C12: for n >= 1 codes and a start position s in 1..63 the document has exactly
\* ceil((s - 1 + n) / 63) pages.
C12_PageCount ==
  (Rendered /\ StartPosition \in 1..LABELS_PER_PAGE)
    => Len(sheet.pages) = Ceil(StartPosition - 1 + CodeCount, LABELS_PER_PAGE)

\* C12 witness: two codes from start position 63 make two pages.
C12_Witness ==
  /\ Rendered
  /\ StartPosition = LABELS_PER_PAGE
  /\ CodeCount = 2
  /\ Len(sheet.pages) = 2

\* C13: n codes from start position 1 make ceil(n/63) pages, every page but the last
\* with exactly 63 labels and the last with n - 63*(pages-1); 2*63+1 codes make
\* exactly 3 pages with exactly 1 label on the last.
C13_Pagination ==
  (Rendered /\ StartPosition = 1)
    => LET pages == Len(sheet.pages)
       IN /\ pages = Ceil(CodeCount, LABELS_PER_PAGE)
          /\ \A k \in 1..(pages - 1) : Len(sheet.pages[k]) = LABELS_PER_PAGE
          /\ Len(sheet.pages[pages]) = CodeCount - LABELS_PER_PAGE * (pages - 1)
          /\ CodeCount = 2 * LABELS_PER_PAGE + 1
               => pages = 3 /\ Len(sheet.pages[3]) = 1

\* C13 witness: 2*63+1 codes rendered from start position 1.
C13_Witness ==
  /\ Rendered
  /\ StartPosition = 1
  /\ CodeCount = 2 * LABELS_PER_PAGE + 1
  /\ Len(sheet.pages) = 3

\* The draws of the document, whatever their page.
AllDraws == {d.draw : d \in PlacedDraws}

\* One vertical pitch: label height plus vertical gap.
PitchY == LABEL + GAP_Y

\* C14: every cell origin of a rendered document is the one computed from the cell's
\* on-page position p alone (col = p mod 7, row = p div 7,
\* x = MARGIN_L + col*(LABEL+GAP_X), y = 792 - MARGIN_T - (row+1)*LABEL - row*GAP_Y):
\* draws at the same position have the same origin on every page, positions 0 and 6
\* have the same y, position 7 has the x of position 0 and a y one pitch lower.
C14_GeometryRows ==
  (Rendered /\ StartPosition >= 1)
    => /\ \A d \in AllDraws :
            LET p == d.pageIndex
            IN /\ p \in 0..(LABELS_PER_PAGE - 1)
               /\ d.col = p % 7
               /\ d.row = p \div 7
               /\ d.x = 2268 + (p % 7) * (7200 + 897)
               /\ d.y = 79200 - 3543 - (p \div 7 + 1) * 7200 - (p \div 7) * 850
       /\ \A d1, d2 \in AllDraws :
            /\ d1.pageIndex = d2.pageIndex => (d1.x = d2.x /\ d1.y = d2.y)
            /\ (d1.pageIndex = 0 /\ d2.pageIndex = COLS - 1) => d1.y = d2.y
            /\ (d1.pageIndex = 0 /\ d2.pageIndex = COLS)
                 => (d2.x = d1.x /\ d2.y = d1.y - PitchY)

\* C14 witness: a document of two pages, started in the middle of a row, with draws
\* at positions 0, 6 and 7 and one position drawn on both pages.
C14_Witness ==
  /\ Rendered
  /\ StartPosition = 2
  /\ Len(sheet.pages) = 2
  /\ \A p \in {0, COLS - 1, COLS} : \E d \in AllDraws : d.pageIndex = p
  /\ \E d1 \in Range(sheet.pages[1]) : \E d2 \in Range(sheet.pages[2]) :
       d1.pageIndex = d2.pageIndex

\* The test-grid handler of src/src/App.jsx answered with a document.
GridRendered == grid.handler = "app" /\ grid.status = 200

GridCells == Range(grid.cells)

\* C15: test-grid draws exactly one rectangle, one centred crosshair and one centred
\* number for each of the 63 positions, the number in the cell of position p is p+1,
\* and the rectangle of number k has the origin of the cell in which generate-sheet
\* draws the first code of a request with startPosition k.
C15_GridAgreesWithSheet ==
  GridRendered
    => /\ Len(grid.cells) = LABELS_PER_PAGE
       /\ \A p \in 0..(LABELS_PER_PAGE - 1) :
            \E c \in GridCells :
              /\ c.row * COLS + c.col = p
              /\ \A c2 \in GridCells : (c2.row = c.row /\ c2.col = c.col) => c2 = c
              /\ c.number = p + 1
              /\ c.width = LABEL /\ c.height = LABEL
              /\ c.crosshair
              /\ 2 * c.cx = 2 * c.x + LABEL /\ 2 * c.cy = 2 * c.y + LABEL
       /\ (Rendered /\ StartPosition \in 1..LABELS_PER_PAGE)
            => \E c \in GridCells :
                 /\ c.number = StartPosition
                 /\ c.x = sheet.pages[1][1].x
                 /\ c.y = sheet.pages[1][1].y

\* C15 witness: the grid and a sheet started at position 63 were both rendered.
C15_Witness ==
  /\ GridRendered
  /\ Rendered
  /\ StartPosition = LABELS_PER_PAGE
  /\ sheet.pages[1][1].i = 0

\* A step of a rendering request: a generate-sheet or a test-grid handler answers.
RenderStep == sheet' # sheet \/ grid' # grid

\* C16: no generate-sheet or test-grid request, answered with a document or with an
\* error, changes the labels table, its id sequence, the open transaction or the
\* committed ledger, nor the state of an allocate-batch request: every issued code
\* stays in the ledger.
C16_RenderingLeavesLedger ==
  [][RenderStep
       => /\ UNCHANGED <<base, labels, seq, inTxn, saved, reqs, arrived>>
          /\ Committed' = Committed
          /\ \A row \in Committed : row \in Committed']_vars

\* C16 witness: with committed codes in the ledger and a transaction of a request in
\* flight open, a sheet request was answered with an error and a grid was rendered.
C16_Witness ==
  /\ Cardinality(Committed) >= 1
  /\ inTxn /\ labels # Committed
  /\ sheet.handler # "" /\ sheet.status \in {400, 500}
  /\ grid.status = 200

\* C17: under every interleaving of requests to the id-based allocator (the storage
\* never failing), a request that answered with an error has left none of the rows
\* it inserted in the ledger.
C17_IdAllocatorAllOrNothing ==
  NoStorageFailure
    => \A r \in Reqs :
         (Done(r) /\ reqs[r].res.status = 500)
           => /\ ~\E row \in labels : row.by = r
              /\ \A k \in DOMAIN reqs[r].inserted :
                   ~\E row \in labels : row.code = reqs[r].inserted[k] /\ row.by = r

\* The codes the generator derives from the form: useMemo(() => buildCodes(safe)).
Codes == BuildCodes(Safe(client))

\* A code is the prefix, a hyphen and exactly 6 decimal digits.
IsSixDigitCode(code, prefix) ==
  /\ Len(code) = Len(prefix) + 7
  /\ SubSeq(code, 1, Len(prefix)) = prefix
  /\ CharAt(code, Len(prefix) + 1) = "-"
  /\ \A k \in (Len(prefix) + 2)..Len(code) : IsDigit(CharAt(code, k))

\* C18: whatever start and count the form holds (start clamped to 0..999999, count
\* to 1..999999), every code of buildCodes is the prefix, a hyphen and exactly 6
\* decimal digits.
C18_FixedWidth ==
  \A k \in DOMAIN Codes : IsSixDigitCode(Codes[k], Safe(client).prefix)

\* The numbers of the 6-digit codes in a registry text.
RegistryNumbers(text) ==
  {CastDigits(SubSeq(text, k + 2, k + 7), 0) :
     k \in {j \in 1..Len(text) : TokenAt(text, j)}}

\* The registry codes of a text that carry the given prefix.
RegistryCodes(text, prefix) ==
  {SubSeq(text, k, k + 7) :
     k \in {j \in 1..Len(text) : TokenAt(text, j) /\ CharAt(text, j) = prefix}}

\* C19: the step that ends the import of a registry with at least one 6-digit code
\* sets the start number strictly above the highest 6-digit number of the file, and
\* no code the generator then derives equals a code of the registry.
C19_ImportPreventsReuse ==
  [][(client.pending.active /\ ~client'.pending.active
        /\ RegistryNumbers(client.pending.text) # {})
       => /\ Safe(client').start > SetMax(RegistryNumbers(client.pending.text))
          /\ Range(BuildCodes(Safe(client')))
               \cap RegistryCodes(client.pending.text, Safe(client').prefix) = {}]_vars

\* C20: a per-prefix request that passed validation holds the write-intent lock when
\* it reads the maximum suffix (BEGIN IMMEDIATE precedes the SELECT), and between
\* that read and its first insert no step of another request changes the table.
C20_LockBeforeRead ==
  [][\A r \in Reqs :
       /\ ("SELECT" \in reqs'[r].stmts /\ "SELECT" \notin reqs[r].stmts)
            => "BEGIN" \in reqs[r].stmts
       /\ ("SELECT" \in reqs[r].stmts /\ "INSERT" \notin reqs[r].stmts
             /\ InFlight(r) /\ reqs'[r] = reqs[r])
            => labels' = labels]_vars

\* The clean prefixes of the requests received so far.
PrefixesInUse == {reqs[r].cleanPrefix : r \in {x \in Reqs : reqs[x].cleanPrefix # ""}}

\* The numbers of the rows of a table view that were inserted by requests for
\* exactly the prefix Q, with the block found at start when Q is its prefix.
NumbersAllocatedFor(rows, Q) ==
  {SuffixOf(row.code, Q) : row \in {x \in rows : reqs[x.by].cleanPrefix = Q}}
    \cup (IF base > 0 /\ Q = DEFAULT_PREFIX THEN {base} ELSE {})

\* The next number the allocator would hand out for prefix Q.
NextNumberFor(rows, Q) == NextNumber(SelectMaxNum(rows, Q))

\* C21: no step of a request for prefix P other than a rollback (the steps of a
\* successful allocation: the read, BEGIN, the inserts, COMMIT) changes the next
\* number handed out for another prefix Q, also when one is a leading substring of
\* the other or ends in digits; and the maximum computed for Q is the maximum of the
\* numbers allocated for exactly Q.
C21_PrefixIndependence ==
  [][/\ \A r \in Reqs : \A Q \in PrefixesInUse :
          (reqs[r].pc \in {"get", "begin", "insert", "commit"}
             /\ reqs'[r] # reqs[r] /\ reqs[r].cleanPrefix # Q)
            => NextNumberFor(labels', Q) = NextNumberFor(labels, Q)
     /\ \A Q \in PrefixesInUse :
          NextNumberFor(labels, Q) = SetMax(NumbersAllocatedFor(labels, Q) \cup {0}) + 1]_vars

\* C21 witness: a request for T1 answered 200 with T100001 and a later request for T
\* answered 200 with T00001 and T00002.
C21_Witness ==
  \E r1, r2 \in Reqs :
    /\ r1 < r2
    /\ Succeeded(r1) /\ reqs[r1].cleanPrefix = "T1" /\ reqs[r1].res.codes = <<"T100001">>
    /\ Succeeded(r2) /\ reqs[r2].cleanPrefix = "T"
    /\ reqs[r2].res.codes = <<"T00001", "T00002">>

ServerRendered == sheet.handler = "server" /\ sheet.status = 200

\* C23: when the body sent by the client carries Start Label k in 1..63, the
\* generate-sheet handler of src/server/server.js draws the first code in the cell at
\* on-page position k-1 and the following codes in the following positions.
C23_StartLabelHonoured ==
  (ServerRendered /\ StartPosition \in 1..LABELS_PER_PAGE)
    => \A d \in AllDraws :
         d.pageIndex = (StartPosition - 1 + d.i) % LABELS_PER_PAGE

\* C24: for every non-empty codes list, the generate-sheet handler of
\* src/server/server.js draws every supplied code exactly once in the document.
C24_NoCodeDropped == ServerRendered => EachCodeOnce

\* C25: under every interleaving (the storage never failing), every code listed in
\* a 200 response of allocate-batch is in the committed ledger when the response is
\* sent and in every later state.
C25_SuccessBackedByLedger ==
  NoStorageFailure
    => \A r \in Reqs :
         Succeeded(r)
           => \A k \in DOMAIN reqs[r].res.codes :
                InBase(reqs[r].res.codes[k])
                  \/ \E row \in Committed : row.code = reqs[r].res.codes[k]

\* C26: whatever integer startIndex the body carries (0, negative values and values
\* above 63 included), the multi-page renderer draws every code at an on-page
\* position in 0..62, with row in 0..8 and col in 0..6.
C26_PositionInRange ==
  Rendered
    => \A d \in AllDraws :
         /\ d.pageIndex \in 0..(LABELS_PER_PAGE - 1)
         /\ d.row \in 0..(ROWS - 1)
         /\ d.col \in 0..(COLS - 1)

\* C27: once every in-flight request has answered, no transaction is open on the
\* shared connection (the table seen is the committed ledger), and a valid,
\* non-exhausting request issued alone after that answers 200 with its whole batch
\* committed, unless the storage fails under it.
C27_Recovery ==
  [][/\ (\A q \in Reqs : reqs'[q].pc \notin {"get", "begin", "insert", "rollback",
                                               "commit", "catch"})
          => (~inTxn' /\ labels' = Committed')
     /\ LET r == MaxRecoverRequests
        IN (reqs[r].pc # "done" /\ reqs'[r].pc = "done"
              /\ ~reqs'[r].ioFailed /\ ~Exhausting(r))
             => /\ reqs'[r].res.status = 200
                /\ Len(reqs'[r].res.codes) = AskedCount(reqs'[r].body)
                /\ ~inTxn'
                /\ \A k \in DOMAIN reqs'[r].res.codes :
                     \E row \in Committed' :
                       row.code = reqs'[r].res.codes[k] /\ row.by = r]_vars

\* C27 witness: after a request that answered 500 and another that has answered,
\* the request issued alone answered 200 with two codes.
C27_Witness ==
  /\ \E r1, r2 \in 1..(MaxRecoverRequests - 1) :
       /\ r1 # r2
       /\ Done(r1) /\ reqs[r1].res.status = 500
       /\ Done(r2)
  /\ Succeeded(MaxRecoverRequests)
  /\ Len(reqs[MaxRecoverRequests].res.codes) = 2

====
